---- MODULE Spec2Model ----
(***************************************************************************)
(* DefTech AI Document Assistant: the bounded tool-calling control loop    *)
(* (agent.py), the retrieval / audit tools (tools.py) and the page chunker *)
(* (document_processor.py).                                                *)
(*                                                                         *)
(* Python values are modelled as follows.                                  *)
(*   str            a TLA+ string, or a tuple of parts for a formatted one *)
(*   dict           [type |-> "dict", items |-> function from keys]        *)
(*   list           [type |-> "list", items |-> sequence]                  *)
(*   JSON text      <<"json", v>> is the text that json.dumps(v) writes    *)
(*                  and json.loads reads back; <<"garbage">> is a text     *)
(*                  that is not JSON                                       *)
(*   datetime.now() the single token "now" (no claim reads the clock)      *)
(***************************************************************************)
EXTENDS Integers, Sequences, FiniteSets, TLC

(***************************************************************************)
(* config.py                                                               *)
(***************************************************************************)
MAX_AGENT_STEPS == 10

CHUNK_SIZE == 500

CHUNK_OVERLAP == 50

TOP_K_RESULTS == 5

CLASSIFICATION_LEVELS == <<"unclassified", "confidential", "secret", "top_secret">>

MANUAL_TYPES == <<"maintenance", "safety", "operations", "training">>

DOCTRINE_AREAS == <<"tactics", "strategy", "logistics", "personnel">>

EMBEDDING_DIM == 1024

(***************************************************************************)
(* Bounds of the exploration.                                              *)
(***************************************************************************)
\* Tool calls or outcomes other than the plain search with hits that the
\* environment (reasoning capability, embedding gateway, index store, file
\* system) may produce in one behaviour: under the shipped step ceiling, and
\* under the short one.
LongOdd == 1

MaxOdd == 2

\* The short step ceiling, and the one configured when queries run concurrently.
ShortSteps == 2

ConcSteps == 1

\* Largest page, in words, handed to the chunker.
MaxWords == 14

\* Most points ingest_chunks builds in one behaviour, the short result limit,
\* and the width of a vector that is not of the collection's width.
MaxPoints == 3

ShortTopK == 1

NarrowDim == 3

Runs == {1, 2}

Range(s) == {s[i] : i \in 1..Len(s)}

(***************************************************************************)
(* str.lower / str.upper on the classification strings the callers pass.   *)
(***************************************************************************)
ClassificationInputs == {"secret", "SECRET", "Secret", "top_secret", "invalid_level"}

\* str.lower() left out: the level is compared exactly as it was passed.
lower_Identity(s) == s

lower(s) ==
    CASE s = "SECRET" -> "secret"
      [] s = "Secret" -> "secret"
      [] OTHER -> s

upper(s) ==
    CASE s = "secret" -> "SECRET"
      [] s = "Secret" -> "SECRET"
      [] s = "top_secret" -> "TOP_SECRET"
      [] s = "invalid_level" -> "INVALID_LEVEL"
      [] OTHER -> s

(***************************************************************************)
(* f"{n:06d}": the decimal digits of n, zero-padded on the left to width 6 *)
(* (wider numbers keep all their digits).                                  *)
(***************************************************************************)
RECURSIVE Digits(_)
Digits(n) == IF n < 10 THEN <<n>> ELSE Append(Digits(n \div 10), n % 10)

RECURSIVE ZeroPad(_, _)
ZeroPad(ds, width) == IF Len(ds) >= width THEN ds ELSE ZeroPad(<<0>> \o ds, width)

\* f"AUD-{len(audit_log_store) + 1:06d}"
FormatAuditId(n) == <<"AUD-">> \o ZeroPad(Digits(n), 6)

(***************************************************************************)
(* json.loads / json.dumps                                                 *)
(***************************************************************************)
PyDict(f) == [type |-> "dict", items |-> f]

PyList(s) == [type |-> "list", items |-> s]

json_dumps(v) == <<"json", v>>

json_loads_ok(t) == t[1] = "json"

json_loads(t) == t[2]

Garbage == <<"garbage">>

(***************************************************************************)
(* State.                                                                  *)
(***************************************************************************)
VARIABLES
    config,           \* the config module: MAX_AGENT_STEPS, CHUNK_SIZE, CHUNK_OVERLAP
    sessions,         \* the queries (threads) that call agent.run in this process
    audit_log_store,  \* tools.audit_log_store, the module-level list
    log_file,         \* the lines of audit_logs/audit_log_<day>.jsonl
    pc,               \* where each run() stands
    user_id,          \* run(): the user_id argument
    messages,         \* run(): the conversation history
    all_tool_calls,   \* run(): the tool-call trace
    all_audit_logs,   \* run(): the audit trace
    step,             \* run(): the loop variable of `for step in range(...)`
    response,         \* run(): the last response of client.chat
    pending,          \* run(): the tool calls of the response not yet executed
    tool_results,     \* run(): the results of this round
    frame,            \* log_access(): the locals of a call under way
    result,           \* what run() returned, or the exception it raised
    chat_calls,       \* number of client.chat calls each run() has made
    budget,           \* non-plain requests and outcomes the environment may still produce
    text,             \* chunk_text(): the page text
    chunks,           \* chunk_text(): the returned list
    chunked,          \* whether chunk_text has returned
    index,            \* the points of the Qdrant collection, in insertion order
    next_uuid,        \* the uuid4 values drawn so far
    search_log,       \* run(): what the environment did during each search call
    last_call         \* the tool-layer or ingestion call made last, with its outcome

agentVars == <<pc, user_id, messages, all_tool_calls, all_audit_logs, step,
               response, pending, tool_results, frame, result, chat_calls>>

storeVars == <<audit_log_store, log_file>>

chunkVars == <<text, chunks, chunked>>

indexVars == <<index, next_uuid, last_call>>

vars == <<config, sessions, budget, storeVars, agentVars, chunkVars, indexVars, search_log>>

NoFrame == [active |-> FALSE]

NoCall == [op |-> "none"]

NoResult == [kind |-> "none"]

NoResponse == [tool_calls |-> <<>>, content |-> <<>>, citations |-> <<>>]

(***************************************************************************)
(* The tool calls a response of the reasoning capability may carry.        *)
(***************************************************************************)
Query == "What is the inspection procedure?"

EmptyArgs == [k \in {} |-> ""]

PlainCall ==
    [name |-> "search_manuals", arguments |-> json_dumps(PyDict([query |-> Query]))]

OddCalls ==
    { [name |-> "search_doctrine", arguments |-> json_dumps(PyDict([query |-> Query]))],
      [name |-> "log_access",
       arguments |-> json_dumps(PyDict([document_id |-> "manual_A",
                                        classification_level |-> "SECRET"]))],
      [name |-> "log_access",
       arguments |-> json_dumps(PyDict([document_id |-> "manual_A", user_id |-> "alice",
                                        classification_level |-> "Secret"]))],
      [name |-> "log_access",
       arguments |-> json_dumps(PyDict([document_id |-> "manual_B",
                                        classification_level |-> "top_secret"]))],
      [name |-> "log_access",
       arguments |-> json_dumps(PyDict([document_id |-> "manual_A",
                                        classification_level |-> "invalid_level"]))],
      [name |-> "log_access",
       arguments |-> json_dumps(PyDict([classification_level |-> "secret"]))],
      [name |-> "log_access", arguments |-> json_dumps(PyList(<<"manual_A">>))],
      [name |-> "delete_all", arguments |-> json_dumps(PyDict(EmptyArgs))],
      [name |-> "search_manuals", arguments |-> Garbage] }

Calls == {PlainCall} \cup OddCalls

Batches == {<<c>> : c \in Calls} \cup {<<c, d>> : c \in Calls, d \in OddCalls}

\* The responses tried while several queries run at once: one call each, of
\* a search, a valid log_access, an unknown tool, or with malformed arguments.
ConcBatches ==
    {<<c>> : c \in {d \in Calls :
                      \/ d = PlainCall
                      \/ d.name = "delete_all"
                      \/ d.arguments = Garbage
                      \/ /\ d.name = "log_access"
                         /\ d.arguments[2].type = "dict"
                         /\ DOMAIN d.arguments[2].items = {"document_id", "classification_level"}
                         /\ d.arguments[2].items.classification_level = "SECRET"}}

BatchesFor(sess) == IF Cardinality(sess) > 1 THEN ConcBatches ELSE Batches

OddIn(batch) == Cardinality({i \in 1..Len(batch) : batch[i] \in OddCalls})

\* The call identifiers the reasoning capability assigns: unique per response.
WithIds(batch, round) ==
    [i \in 1..Len(batch) |->
        [id |-> <<"call", round, i>>, name |-> batch[i].name,
         arguments |-> batch[i].arguments]]

(***************************************************************************)
(* tools.py: keyword binding of execute_tool's **parameters.               *)
(***************************************************************************)
Required(name) ==
    CASE name = "search_manuals" -> {"query"}
      [] name = "search_doctrine" -> {"query"}
      [] name = "log_access" -> {"document_id", "user_id", "classification_level"}
      [] OTHER -> {}

Allowed(name) ==
    CASE name = "search_manuals" -> {"query", "manual_type"}
      [] name = "search_doctrine" -> {"query", "doctrine_area"}
      [] name = "log_access" -> {"document_id", "user_id", "classification_level"}
      [] OTHER -> {}

ToolNames == {"search_manuals", "search_doctrine", "log_access"}

Binds(name, parameters) ==
    /\ parameters.type = "dict"
    /\ Required(name) \subseteq DOMAIN parameters.items
    /\ DOMAIN parameters.items \subseteq Allowed(name)

\* The caller's user_id written into every log_access call, over one it carries.
InjectUserId_Overwrite(name, tool_args, uid) ==
    IF name = "log_access"
    THEN PyDict(("user_id" :> uid) @@ [k \in DOMAIN tool_args.items \ {"user_id"} |->
                                          tool_args.items[k]])
    ELSE tool_args

\* agent.py lines 91-93: user_id is added to a log_access call that has none.
InjectUserId(name, tool_args, uid) ==
    IF name = "log_access" /\ "user_id" \notin DOMAIN tool_args.items
    THEN PyDict(("user_id" :> uid) @@ tool_args.items)
    ELSE tool_args

\* The exception the try block raises before any tool body runs, or "none".
\* A list has no item assignment (log_access) and is no mapping for ** (others).
DispatchError(name, tool_args) ==
    CASE tool_args.type # "dict" -> "TypeError"
      [] name \notin ToolNames -> "ValueError: Unknown tool"
      [] ~Binds(name, tool_args) -> "TypeError"
      [] OTHER -> "none"

(***************************************************************************)
(* tools.py: log_access                                                    *)
(***************************************************************************)
\* The level check of log_access left out: every level is accepted.
ValidClassification_Unchecked(classification_level) == TRUE

ValidClassification(classification_level) ==
    lower(classification_level) \in Range(CLASSIFICATION_LEVELS)

InvalidLevelResult ==
    PyDict([success |-> FALSE,
            error |-> <<"Invalid classification level. Must be one of: ",
                        CLASSIFICATION_LEVELS>>])

\* The id taken from the store's length without the increment.
NextAuditId_Stale(store) == FormatAuditId(Len(store))

NextAuditId(store) == FormatAuditId(Len(store) + 1)

AuditEntry(audit_id, p) ==
    [audit_id |-> audit_id,
     timestamp |-> "now",
     document_id |-> p.document_id,
     user_id |-> p.user_id,
     classification_level |-> upper(p.classification_level),
     action |-> "DOCUMENT_ACCESS"]

LoggedResult(entry, p) ==
    PyDict([success |-> TRUE,
            audit_id |-> entry.audit_id,
            timestamp |-> entry.timestamp,
            message |-> <<"Access to ", upper(p.classification_level),
                          " document logged successfully">>])

(***************************************************************************)
(* agent.py: what one executed tool call leaves in the traces.             *)
(***************************************************************************)
\* Every dict a log_access call returns taken as a success.
Reported_AnyDict(res) == res.type = "dict"

\* agent.py line 98: result.get('success')
Reported(res) ==
    /\ res.type = "dict"
    /\ "success" \in DOMAIN res.items
    /\ res.items.success = TRUE

ResultSummary(res) ==
    IF res.type = "list" THEN <<Len(res.items), " results">>
    ELSE IF "success" \in DOMAIN res.items THEN <<"str", res.items.success>>
    ELSE <<"completed">>

ToolCallRecord(name, tool_args, res) ==
    [tool |-> name, parameters |-> tool_args, result_summary |-> ResultSummary(res)]

CallOf(tc, tool_args) ==
    [id |-> tc.id, type |-> "function",
     function |-> [name |-> tc.name, arguments |-> json_dumps(tool_args)]]

ResultEntry(tc, tool_args, res) ==
    [call |-> CallOf(tc, tool_args), outputs |-> <<[result |-> json_dumps(res)]>>]

ErrorEntry(tc, tool_args, e) ==
    [call |-> CallOf(tc, tool_args),
     outputs |-> <<[error |-> <<"Error executing ", tc.name, ": ", e>>]>>]

\* outputs[0].get("result", outputs[0].get("error", ""))
OutputText(out) ==
    IF "result" \in DOMAIN out THEN out.result
    ELSE IF "error" \in DOMAIN out THEN out.error
    ELSE ""

ToolMessage(tool_result) ==
    [role |-> "tool",
     tool_call_id |-> tool_result.call.id,
     content |-> OutputText(tool_result.outputs[1])]

AssistantMessage(tool_calls) ==
    [role |-> "assistant",
     tool_calls |-> [i \in 1..Len(tool_calls) |->
                        [id |-> tool_calls[i].id, type |-> "function",
                         function |-> [name |-> tool_calls[i].name,
                                       arguments |-> tool_calls[i].arguments]]]]

RECURSIVE ToolMessages(_)
ToolMessages(results) ==
    IF results = <<>> THEN <<>>
    ELSE <<ToolMessage(Head(results))>> \o ToolMessages(Tail(results))

(***************************************************************************)
(* The index store (a Qdrant collection) and the embedding gateway.  An    *)
(* embedding is a list of floats: the model keeps its length (dim) and a   *)
(* token for its direction (dir); [] is the embedding of length 0.         *)
(***************************************************************************)
\* Python's None, as a keyword argument that was not passed.
None == "<None>"

\* bool(v) for v a str or None
Truthy(v) == v # None /\ v # ""

Embedding(dim, dir) == [dim |-> dim, dir |-> dir]

EmptyEmbedding == Embedding(0, 0)

\* The direction the gateway gives the embedding of a text.
DirOf(t) ==
    CASE t = Query -> 1
      [] t = "maintenance schedule" -> 1
      [] t = "safety rules" -> 2
      [] t = "tactical doctrine" -> 3
      [] OTHER -> 4

\* embed_query, lines 236-258: the vector of the collection's width, or []
\* when the gateway call raised.
embed_query(dim, query, gateway_ok) ==
    IF gateway_ok THEN Embedding(dim, DirOf(query)) ELSE EmptyEmbedding

\* vector_store.py lines 82-93: one FieldCondition(key, MatchValue(value)) per
\* item of filters, all of them under Filter(must=...); no filter for {}.
Conditions(filters) == {<<k, filters[k]>> : k \in DOMAIN filters}

\* Filter(should=conditions): one condition met is enough.
Satisfies_Any(payload, must) ==
    \E c \in must : c[1] \in DOMAIN payload /\ payload[c[1]] = c[2]

\* Filter(must=conditions): a payload passes when every condition's key is
\* present with exactly the condition's value.
Satisfies(payload, must) ==
    \A c \in must : c[1] \in DOMAIN payload /\ payload[c[1]] = c[2]

\* The similarity the engine reports, in thousandths: highest for the same
\* direction, lower the further apart the directions are.
Score(vector, query_vector) ==
    IF vector.dir >= query_vector.dir
    THEN 1000 - 100 * (vector.dir - query_vector.dir)
    ELSE 1000 - 100 * (query_vector.dir - vector.dir)

\* The candidates by descending score, earlier points first among equals.
RECURSIVE Ranked(_, _, _)
Ranked(idx, candidates, query_vector) ==
    IF candidates = {} THEN <<>>
    ELSE LET best == CHOOSE i \in candidates : \A j \in candidates :
                        \/ Score(idx[i].vector, query_vector) > Score(idx[j].vector, query_vector)
                        \/ /\ Score(idx[i].vector, query_vector) = Score(idx[j].vector, query_vector)
                           /\ i <= j
         IN <<best>> \o Ranked(idx, candidates \ {best}, query_vector)

\* client.search(collection_name, query_vector, limit, query_filter): the
\* `limit` best points among those that pass the filter.
client_search(idx, q) ==
    LET ranked == Ranked(idx, {i \in 1..Len(idx) : Satisfies(idx[i].payload, q.query_filter)},
                         q.query_vector)
        n == IF Len(ranked) > q.limit THEN q.limit ELSE Len(ranked)
    IN [k \in 1..n |-> [payload |-> idx[ranked[k]].payload,
                        score |-> Score(idx[ranked[k]].vector, q.query_vector)]]

\* VectorStore.search, lines 62-118.  The tools always pass limit.  The call
\* of client.search stands in no try: when it raises, search raises.
search(idx, query_embedding, limit, filters, index_ok) ==
    LET q == [query_vector |-> query_embedding, limit |-> limit,
              query_filter |-> Conditions(filters)]
        search_results == client_search(idx, q)
    IN [issued |-> <<q>>,
        raised |-> ~index_ok,
        results |-> IF index_ok
                    THEN [k \in 1..Len(search_results) |->
                            [text |-> search_results[k].payload.text,
                             manual_name |-> search_results[k].payload.manual_name,
                             page |-> search_results[k].payload.page,
                             section |-> search_results[k].payload.section,
                             classification |-> search_results[k].payload.classification,
                             document_type |-> search_results[k].payload.document_type,
                             score |-> search_results[k].score,
                             metadata |-> search_results[k].payload]]
                    ELSE <<>>]

\* Every present value is taken for the filter, recognized or not.
ManualFilters_Unchecked(manual_type) ==
    IF Truthy(manual_type)
    THEN [document_type |-> "manual", manual_type |-> manual_type]
    ELSE [document_type |-> "manual"]

\* search_by_manual_type, lines 153-156
ManualFilters(manual_type) ==
    IF Truthy(manual_type) /\ manual_type \in Range(MANUAL_TYPES)
    THEN [document_type |-> "manual", manual_type |-> manual_type]
    ELSE [document_type |-> "manual"]

\* search_by_doctrine_area, lines 177-180
DoctrineFilters(doctrine_area) ==
    IF Truthy(doctrine_area) /\ doctrine_area \in Range(DOCTRINE_AREAS)
    THEN [document_type |-> "doctrine", doctrine_area |-> doctrine_area]
    ELSE [document_type |-> "doctrine"]

search_by_manual_type(idx, query_embedding, manual_type, limit, index_ok) ==
    search(idx, query_embedding, limit, ManualFilters(manual_type), index_ok)

search_by_doctrine_area(idx, query_embedding, doctrine_area, limit, index_ok) ==
    search(idx, query_embedding, limit, DoctrineFilters(doctrine_area), index_ok)

(***************************************************************************)
(* tools.py: search_manuals / search_doctrine.  What the environment does  *)
(* during one call: "ok", the gateway fails ("embed_failed"), or the index *)
(* store fails ("index_error").                                            *)
(***************************************************************************)
SearchEnvs == {"ok", "embed_failed", "index_error"}

\* lines 56-66: rank from 1, the citation fields, the text preview, the score
FormatResults(results) ==
    [i \in 1..Len(results) |->
        [rank |-> i,
         manual_name |-> results[i].manual_name,
         page |-> results[i].page,
         section |-> results[i].section,
         classification |-> results[i].classification,
         text |-> results[i].text,
         relevance_score |-> results[i].score]]

\* A call of a search tool: the queries it sent to the index store, whether
\* it raised, and the list it returned.
ToolOutcome(res) ==
    [issued |-> res.issued, raised |-> res.raised,
     value |-> IF res.raised THEN <<>> ELSE FormatResults(res.results)]

NotSearched == [issued |-> <<>>, raised |-> FALSE, value |-> <<>>]

\* The query embedded also when the gateway failed.
Embedded_Always(query_embedding) == TRUE

\* lines 45 and 91: `if not query_embedding` is false
Embedded(query_embedding) == query_embedding.dim # 0

\* lines 25-69
search_manuals(idx, cfg, query, manual_type, env) ==
    LET query_embedding == embed_query(cfg.EMBEDDING_DIM, query, env # "embed_failed") IN
    IF ~Embedded(query_embedding) THEN NotSearched
    ELSE ToolOutcome(search_by_manual_type(idx, query_embedding, manual_type,
                                           cfg.TOP_K_RESULTS, env # "index_error"))

\* lines 71-115
search_doctrine(idx, cfg, query, doctrine_area, env) ==
    LET query_embedding == embed_query(cfg.EMBEDDING_DIM, query, env # "embed_failed") IN
    IF ~Embedded(query_embedding) THEN NotSearched
    ELSE ToolOutcome(search_by_doctrine_area(idx, query_embedding, doctrine_area,
                                             cfg.TOP_K_RESULTS, env # "index_error"))

\* A keyword argument of the call, None when it was not passed.
Arg(items, key) == IF key \in DOMAIN items THEN items[key] ELSE None

\* execute_tool, lines 287-290
SearchTool(name, items, idx, cfg, env) ==
    IF name = "search_manuals"
    THEN search_manuals(idx, cfg, items.query, Arg(items, "manual_type"), env)
    ELSE search_doctrine(idx, cfg, items.query, Arg(items, "doctrine_area"), env)

(***************************************************************************)
(* vector_store.py: ingest_chunks, and what ingest_documents.py feeds it.  *)
(***************************************************************************)
\* process_document, lines 186-201: the metadata of one chunk.
Chunk(manual_name, page, document_type, kind, chunk_words) ==
    LET base == [text |-> chunk_words, manual_name |-> manual_name, page |-> page,
                 section |-> "General", classification |-> "unclassified",
                 document_type |-> document_type, last_updated |-> "2024-01"]
    IN IF document_type = "manual" THEN ("manual_type" :> kind) @@ base
       ELSE ("doctrine_area" :> kind) @@ base

\* The documents of ingest_documents.py, as the chunks process_document
\* makes of them: a two-chunk manual, a one-chunk manual, a one-chunk doctrine.
Documents ==
    { <<Chunk("Equipment Maintenance Manual v3.2", 1, "manual", "maintenance",
              "maintenance schedule"),
        Chunk("Equipment Maintenance Manual v3.2", 2, "manual", "maintenance",
              "inspection steps")>>,
      <<Chunk("Safety Guidelines 2024", 1, "manual", "safety", "safety rules")>>,
      <<Chunk("Tactical Doctrine TD-2023-04", 1, "doctrine", "tactics",
              "tactical doctrine")>> }

\* lines 36-49: the payload of a point
Payload(chunk) ==
    [k \in DOMAIN chunk \cup {"last_updated"} |->
        IF k \in DOMAIN chunk THEN chunk[k] ELSE "2024"]

\* The points are built whatever the two lengths are.
LengthsMatch_Unchecked(doc_chunks, embeddings) == TRUE

\* line 27
LengthsMatch(doc_chunks, embeddings) == Len(doc_chunks) = Len(embeddings)

\* lines 30-52: zip(chunks, embeddings), a fresh uuid4 for every point
Points(doc_chunks, embeddings, uuid) ==
    LET n == IF Len(doc_chunks) < Len(embeddings) THEN Len(doc_chunks) ELSE Len(embeddings)
    IN [k \in 1..n |-> [id |-> uuid + k, vector |-> embeddings[k],
                        payload |-> Payload(doc_chunks[k])]]

\* client.upsert: a point replaces the stored point of the same id, or is added.
RECURSIVE client_upsert(_, _)
client_upsert(idx, points) ==
    IF points = <<>> THEN idx
    ELSE LET p == Head(points)
             held == {i \in 1..Len(idx) : idx[i].id = p.id}
         IN client_upsert(IF held = {} THEN Append(idx, p)
                          ELSE [i \in 1..Len(idx) |-> IF i \in held THEN p ELSE idx[i]],
                          Tail(points))

\* generate_embeddings, lines 209-234: one vector per text.
generate_embeddings(dim, doc_chunks) ==
    [k \in 1..Len(doc_chunks) |-> Embedding(dim, DirOf(doc_chunks[k].text))]

(***************************************************************************)
(* Initial states.                                                         *)
(***************************************************************************)
DefaultConfig ==
    [MAX_AGENT_STEPS |-> MAX_AGENT_STEPS,
     CHUNK_SIZE |-> CHUNK_SIZE,
     CHUNK_OVERLAP |-> CHUNK_OVERLAP,
     TOP_K_RESULTS |-> TOP_K_RESULTS,
     EMBEDDING_DIM |-> EMBEDDING_DIM]

\* The collection after ingest_documents.py has ingested the two manuals once:
\* no doctrine document is indexed.
RECURSIVE IngestAll(_, _, _)
IngestAll(docs, idx, uuid) ==
    IF docs = <<>> THEN idx
    ELSE IngestAll(Tail(docs),
                   client_upsert(idx, Points(Head(docs),
                                             generate_embeddings(EMBEDDING_DIM, Head(docs)),
                                             uuid)),
                   uuid + Len(Head(docs)))

ManualsIndex ==
    IngestAll(<<CHOOSE d \in Documents : Len(d) = 2,
                CHOOSE d \in Documents : d[1].manual_name = "Safety Guidelines 2024">>,
              <<>>, 0)

InitIndexed ==
    /\ index = ManualsIndex
    /\ next_uuid = Len(ManualsIndex)
    /\ last_call = NoCall

InitAgent ==
    /\ audit_log_store = <<>>
    /\ log_file = <<>>
    /\ pc = [r \in Runs |-> "idle"]
    /\ user_id = [r \in Runs |-> ""]
    /\ messages = [r \in Runs |-> <<>>]
    /\ all_tool_calls = [r \in Runs |-> <<>>]
    /\ all_audit_logs = [r \in Runs |-> <<>>]
    /\ step = [r \in Runs |-> 0]
    /\ response = [r \in Runs |-> NoResponse]
    /\ pending = [r \in Runs |-> <<>>]
    /\ tool_results = [r \in Runs |-> <<>>]
    /\ frame = [r \in Runs |-> NoFrame]
    /\ result = [r \in Runs |-> NoResult]
    /\ chat_calls = [r \in Runs |-> 0]
    /\ search_log = [r \in Runs |-> <<>>]

InitChunker ==
    /\ text = <<>>
    /\ chunks = <<>>
    /\ chunked = FALSE

\* One query at a time; the step ceiling as shipped, or a short one.
Init ==
    /\ \/ config = DefaultConfig /\ budget = LongOdd
       \/ config = [DefaultConfig EXCEPT !.MAX_AGENT_STEPS = ShortSteps] /\ budget = MaxOdd
    /\ sessions = {1}
    /\ InitAgent
    /\ InitChunker
    /\ InitIndexed

(***************************************************************************)
(* agent.py: DefTechAgent.run                                              *)
(***************************************************************************)
UserIds == {"demo_user"}

\* messages, all_tool_calls, all_audit_logs and step kept on the agent object
\* that every query shares.
Locals_OnAgent(r) == 1

\* lines 36-49: messages, all_tool_calls, all_audit_logs and step are locals of
\* run(), one set per invocation.
Locals(r) == r

\* lines 36-46
Start(r) ==
    /\ r \in sessions
    /\ pc[r] = "idle"
    /\ \E uid \in UserIds : user_id' = [user_id EXCEPT ![r] = uid]
    /\ messages' = [messages EXCEPT ![Locals(r)] = <<[role |-> "user", content |-> Query]>>]
    /\ all_tool_calls' = [all_tool_calls EXCEPT ![Locals(r)] = <<>>]
    /\ all_audit_logs' = [all_audit_logs EXCEPT ![Locals(r)] = <<>>]
    /\ step' = [step EXCEPT ![Locals(r)] = 0]
    /\ pc' = [pc EXCEPT ![r] = "chat"]
    /\ UNCHANGED <<config, sessions, budget, storeVars, chunkVars, indexVars, search_log, response, pending,
                   tool_results, frame, result, chat_calls>>

\* The loop entered once more than the ceiling allows: range(MAX_AGENT_STEPS + 1).
InLoop_OneMore(r) == pc[r] = "chat" /\ step[r] <= config.MAX_AGENT_STEPS

\* line 49: for step in range(MAX_AGENT_STEPS)
InLoop(r) == pc[r] = "chat" /\ step[r] < config.MAX_AGENT_STEPS

\* lines 53-58: client.chat raises; nothing in run() catches it.
ChatRaises(r) ==
    /\ InLoop(r)
    /\ chat_calls' = [chat_calls EXCEPT ![r] = @ + 1]
    /\ result' = [result EXCEPT ![r] = [kind |-> "exception", type |-> "ApiError",
                                        raised_by |-> "client.chat"]]
    /\ pc' = [pc EXCEPT ![r] = "raised"]
    /\ UNCHANGED <<config, sessions, budget, storeVars, chunkVars, indexVars, search_log, response, user_id,
                   messages, all_tool_calls, all_audit_logs, step, pending,
                   tool_results, frame>>

\* lines 53-81: the response requests tool calls.
ChatToolCalls(r) ==
    /\ InLoop(r)
    /\ \E batch \in BatchesFor(sessions) :
        /\ OddIn(batch) <= budget
        /\ budget' = budget - OddIn(batch)
        /\ LET tool_calls == WithIds(batch, step[r] + 1) IN
            /\ messages' = [messages EXCEPT ![Locals(r)] =
                                Append(@, AssistantMessage(tool_calls))]
            /\ response' = [response EXCEPT ![r] =
                                [NoResponse EXCEPT !.tool_calls = tool_calls]]
            /\ pending' = [pending EXCEPT ![r] = tool_calls]
    /\ chat_calls' = [chat_calls EXCEPT ![r] = @ + 1]
    /\ tool_results' = [tool_results EXCEPT ![r] = <<>>]
    /\ pc' = [pc EXCEPT ![r] = "tools"]
    /\ UNCHANGED <<config, sessions, storeVars, chunkVars, indexVars, search_log, user_id, all_tool_calls,
                   all_audit_logs, step, frame, result>>

\* response.message.content and response.citations of a final response
FinalResponses ==
    { [tool_calls |-> <<>>, content |-> <<>>, citations |-> <<>>],
      [tool_calls |-> <<>>, content |-> <<[text |-> "Inspect daily."]>>,
       citations |-> <<>>],
      [tool_calls |-> <<>>, content |-> <<[text |-> "Inspect daily."]>>,
       citations |-> <<[text |-> "daily", sources |-> <<"manual_A">>,
                        start |-> 8, end |-> 13]>>] }

\* lines 179-199
_format_citations(citations) ==
    [i \in 1..Len(citations) |->
        [text |-> citations[i].text, sources |-> citations[i].sources,
         start |-> citations[i].start, end |-> citations[i].end]]

\* steps_taken reported as the loop index itself.
StepsTaken_LoopIndex(loop_step) == loop_step

\* line 166: 'steps_taken': step + 1
StepsTaken(loop_step) == loop_step + 1

Returned(answer, citations, r, steps_taken) ==
    [kind |-> "return",
     answer |-> answer,
     citations |-> citations,
     tool_calls |-> all_tool_calls[Locals(r)],
     audit_logs |-> all_audit_logs[Locals(r)],
     steps_taken |-> steps_taken]

\* lines 150-167: the response requests no tool call.
ChatFinal(r) ==
    /\ InLoop(r)
    /\ \E final \in FinalResponses :
        LET final_text == IF final.content # <<>> THEN final.content[1].text
                          ELSE "No response generated" IN
        /\ response' = [response EXCEPT ![r] = final]
        /\ result' = [result EXCEPT ![r] =
                         Returned(final_text, _format_citations(final.citations), r,
                                  StepsTaken(step[r]))]
    /\ chat_calls' = [chat_calls EXCEPT ![r] = @ + 1]
    /\ pc' = [pc EXCEPT ![r] = "done"]
    /\ UNCHANGED <<config, sessions, budget, storeVars, chunkVars, indexVars, search_log, user_id, messages,
                   all_tool_calls, all_audit_logs, step, pending, tool_results, frame>>

\* lines 169-177: the for loop is exhausted.
StepLimit(r) ==
    /\ pc[r] = "chat"
    /\ step[r] >= config.MAX_AGENT_STEPS
    /\ result' = [result EXCEPT ![r] =
                     Returned("Unable to complete request within step limit.", <<>>, r,
                              config.MAX_AGENT_STEPS)]
    /\ pc' = [pc EXCEPT ![r] = "done"]
    /\ UNCHANGED <<config, sessions, budget, storeVars, chunkVars, indexVars, search_log, response, user_id,
                   messages, all_tool_calls, all_audit_logs, step, pending,
                   tool_results, frame, chat_calls>>

AtCall(r) == pc[r] = "tools" /\ pending[r] # <<>>

\* lines 95-122: the tool returned `res`.
Succeeded(r, tc, tool_args, res) ==
    /\ all_audit_logs' = [all_audit_logs EXCEPT ![Locals(r)] =
                             IF tc.name = "log_access" /\ Reported(res)
                             THEN Append(@, res) ELSE @]
    /\ all_tool_calls' = [all_tool_calls EXCEPT ![Locals(r)] =
                             Append(@, ToolCallRecord(tc.name, tool_args, res))]
    /\ tool_results' = [tool_results EXCEPT ![r] =
                           Append(@, ResultEntry(tc, tool_args, res))]
    /\ pending' = [pending EXCEPT ![r] = Tail(@)]

\* A call that raised given a record in the tool-call trace all the same.
Failed_Recorded(r, tc, tool_args, e) ==
    /\ tool_results' = [tool_results EXCEPT ![r] =
                           Append(@, ErrorEntry(tc, tool_args, e))]
    /\ pending' = [pending EXCEPT ![r] = Tail(@)]
    /\ all_tool_calls' = [all_tool_calls EXCEPT ![Locals(r)] =
                             Append(@, ToolCallRecord(tc.name, tool_args,
                                                      PyDict([error |-> e])))]
    /\ UNCHANGED all_audit_logs

\* lines 124-138: the try block raised `e`.
Failed(r, tc, tool_args, e) ==
    /\ tool_results' = [tool_results EXCEPT ![r] =
                           Append(@, ErrorEntry(tc, tool_args, e))]
    /\ pending' = [pending EXCEPT ![r] = Tail(@)]
    /\ UNCHANGED <<all_audit_logs, all_tool_calls>>

\* line 85: json.loads raises outside the try block; run() raises.
ParseRaises(r) ==
    /\ AtCall(r)
    /\ ~json_loads_ok(Head(pending[r]).arguments)
    /\ result' = [result EXCEPT ![r] = [kind |-> "exception", type |-> "JSONDecodeError",
                                        raised_by |-> "json.loads"]]
    /\ pc' = [pc EXCEPT ![r] = "raised"]
    /\ UNCHANGED <<config, sessions, budget, storeVars, chunkVars, indexVars, search_log, response, user_id,
                   messages, all_tool_calls, all_audit_logs, step, pending,
                   tool_results, frame, chat_calls>>

\* lines 90-95, 124-138 and tools.py 287-294: the call never reaches a tool body.
DispatchRaises(r) ==
    /\ AtCall(r)
    /\ json_loads_ok(Head(pending[r]).arguments)
    /\ LET tc == Head(pending[r])
           parsed == json_loads(tc.arguments)
           tool_args == IF parsed.type = "dict"
                        THEN InjectUserId(tc.name, parsed, user_id[r]) ELSE parsed
       IN /\ DispatchError(tc.name, tool_args) # "none"
          /\ Failed(r, tc, tool_args, DispatchError(tc.name, tool_args))
    /\ UNCHANGED <<config, sessions, budget, storeVars, chunkVars, indexVars, search_log, response, user_id,
                   messages, step, frame, result, chat_calls, pc>>

\* lines 90-122 with tools.py 25-115: a search tool runs.
ExecSearch(r) ==
    /\ AtCall(r)
    /\ json_loads_ok(Head(pending[r]).arguments)
    /\ LET tc == Head(pending[r])
           tool_args == json_loads(tc.arguments)
       IN /\ tc.name \in {"search_manuals", "search_doctrine"}
          /\ DispatchError(tc.name, tool_args) = "none"
          /\ \E env \in SearchEnvs :
                LET cost == IF env = "ok" THEN 0 ELSE 1
                    out == SearchTool(tc.name, tool_args.items, index, config, env)
                IN /\ cost <= budget
                   /\ budget' = budget - cost
                   /\ search_log' = [search_log EXCEPT ![r] =
                                        Append(@, [id |-> tc.id, env |-> env,
                                                   issued |-> out.issued,
                                                   hits |-> Len(out.value),
                                                   trace |-> IF out.raised THEN 0
                                                             ELSE Len(all_tool_calls[r]) + 1])]
                   /\ IF out.raised
                      THEN Failed(r, tc, tool_args, "index store error")
                      ELSE Succeeded(r, tc, tool_args, PyList(out.value))
    /\ UNCHANGED <<config, sessions, storeVars, chunkVars, indexVars, response, user_id,
                   messages, step, frame, result, chat_calls, pc>>

(***************************************************************************)
(* tools.py: log_access, statement by statement.  Nothing serializes two   *)
(* calls: the module has no lock, and the interpreter may switch threads   *)
(* between reading len(audit_log_store) and the append, and again before   *)
(* the file is written.                                                    *)
(***************************************************************************)
\* agent.py 90-95 and tools.py 136-154: validation, then the id and the entry.
LogAccessBegin(r) ==
    /\ AtCall(r)
    /\ json_loads_ok(Head(pending[r]).arguments)
    /\ LET tc == Head(pending[r])
           parsed == json_loads(tc.arguments)
           tool_args == IF parsed.type = "dict"
                        THEN InjectUserId(tc.name, parsed, user_id[r]) ELSE parsed
       IN /\ tc.name = "log_access"
          /\ DispatchError(tc.name, tool_args) = "none"
          /\ IF ValidClassification(tool_args.items.classification_level)
             THEN /\ frame' = [frame EXCEPT ![r] =
                        [active |-> TRUE,
                         tool_args |-> tool_args,
                         audit_entry |-> AuditEntry(NextAuditId(audit_log_store),
                                                    tool_args.items)]]
                  /\ pc' = [pc EXCEPT ![r] = "log_append"]
                  /\ UNCHANGED <<all_audit_logs, all_tool_calls, tool_results, pending>>
             ELSE /\ Succeeded(r, tc, tool_args, InvalidLevelResult)
                  /\ UNCHANGED <<frame, pc>>
    /\ UNCHANGED <<config, sessions, budget, storeVars, chunkVars, indexVars, search_log, response, user_id,
                   messages, step, result, chat_calls>>

\* The entry put at the head of the store: audit_log_store.insert(0, audit_entry).
LogAccessAppend_Prepend(r) ==
    /\ pc[r] = "log_append"
    /\ audit_log_store' = <<frame[r].audit_entry>> \o audit_log_store
    /\ pc' = [pc EXCEPT ![r] = "log_write"]
    /\ UNCHANGED <<config, sessions, budget, log_file, chunkVars, indexVars, search_log, response, user_id,
                   messages, all_tool_calls, all_audit_logs, step, pending,
                   tool_results, frame, result, chat_calls>>

\* tools.py 156-157
LogAccessAppend(r) ==
    /\ pc[r] = "log_append"
    /\ audit_log_store' = Append(audit_log_store, frame[r].audit_entry)
    /\ pc' = [pc EXCEPT ![r] = "log_write"]
    /\ UNCHANGED <<config, sessions, budget, log_file, chunkVars, indexVars, search_log, response, user_id,
                   messages, all_tool_calls, all_audit_logs, step, pending,
                   tool_results, frame, result, chat_calls>>

\* tools.py 159-171 and agent.py 97-122: the line is written, the call returns.
LogAccessWrite(r) ==
    /\ pc[r] = "log_write"
    /\ log_file' = Append(log_file, <<json_dumps(frame[r].audit_entry), "\n">>)
    /\ Succeeded(r, Head(pending[r]), frame[r].tool_args,
                 LoggedResult(frame[r].audit_entry, frame[r].tool_args.items))
    /\ frame' = [frame EXCEPT ![r] = NoFrame]
    /\ pc' = [pc EXCEPT ![r] = "tools"]
    /\ UNCHANGED <<config, sessions, budget, audit_log_store, chunkVars, indexVars, search_log, response,
                   user_id, messages, step, result, chat_calls>>

\* tools.py 160-162 raising (directory gone, disk full) and agent.py 124-138.
LogAccessWriteRaises(r) ==
    /\ pc[r] = "log_write"
    /\ budget > 0
    /\ budget' = budget - 1
    /\ Failed(r, Head(pending[r]), frame[r].tool_args, "OSError")
    /\ frame' = [frame EXCEPT ![r] = NoFrame]
    /\ pc' = [pc EXCEPT ![r] = "tools"]
    /\ UNCHANGED <<config, sessions, storeVars, chunkVars, indexVars, search_log, response, user_id,
                   messages, step, result, chat_calls>>

\* agent.py 140-146, and the for loop's next iteration.
EndRound(r) ==
    /\ pc[r] = "tools"
    /\ pending[r] = <<>>
    /\ messages' = [messages EXCEPT ![Locals(r)] = @ \o ToolMessages(tool_results[r])]
    /\ step' = [step EXCEPT ![Locals(r)] = @ + 1]
    /\ pc' = [pc EXCEPT ![r] = "chat"]
    /\ UNCHANGED <<config, sessions, budget, storeVars, chunkVars, indexVars, search_log, response, user_id,
                   all_tool_calls, all_audit_logs, pending, tool_results, frame,
                   result, chat_calls>>

Next ==
    \E r \in Runs :
        \/ Start(r)
        \/ ChatRaises(r)
        \/ ChatToolCalls(r)
        \/ ChatFinal(r)
        \/ StepLimit(r)
        \/ ParseRaises(r)
        \/ DispatchRaises(r)
        \/ ExecSearch(r)
        \/ LogAccessBegin(r)
        \/ LogAccessAppend(r)
        \/ LogAccessWrite(r)
        \/ LogAccessWriteRaises(r)
        \/ EndRound(r)

Spec == Init /\ [][Next]_vars

\* Several queries at once on the one cached agent (streamlit_app.py 74-99).
InitConc ==
    /\ config = [DefaultConfig EXCEPT !.MAX_AGENT_STEPS = ConcSteps]
    /\ budget = MaxOdd
    /\ sessions = Runs
    /\ InitAgent
    /\ InitChunker
    /\ InitIndexed

SpecConc == InitConc /\ [][Next]_vars

(***************************************************************************)
(* document_processor.py: chunk_text.  A page text is a sequence of        *)
(* characters: Space is a whitespace character, WordChar(i) the character  *)
(* that makes up the i-th word, so that every word of a page is distinct.  *)
(***************************************************************************)
Space == <<" ", 0>>

WordChar(i) == <<"w", i>>

\* str.split(): the maximal runs of non-whitespace characters, in order.
RECURSIVE SplitFrom(_, _, _)
SplitFrom(rest, word, words) ==
    IF rest = <<>> THEN (IF word = <<>> THEN words ELSE Append(words, word))
    ELSE IF Head(rest) = Space
         THEN SplitFrom(Tail(rest), <<>>, IF word = <<>> THEN words ELSE Append(words, word))
         ELSE SplitFrom(Tail(rest), Append(word, Head(rest)), words)

\* Every character taken as a word of its own, whitespace included.
split_Chars(s) == [i \in 1..Len(s) |-> <<s[i]>>]

split(s) == SplitFrom(s, <<>>, <<>>)

\* ' '.join(words)
RECURSIVE join(_)
join(words) ==
    IF words = <<>> THEN <<>>
    ELSE IF Len(words) = 1 THEN words[1]
    ELSE words[1] \o <<Space>> \o join(Tail(words))

\* The slice without its upper end: words[i:].
Slice_Unbounded(words, i, j) == SubSeq(words, i + 1, Len(words))

\* words[i:j] for 0 <= i <= j
Slice(words, i, j) ==
    SubSeq(words, i + 1, IF j < Len(words) THEN j ELSE Len(words))

\* int(tokens * 0.75): 0.75 is exact in binary, int() truncates.
WordsFor(tokens) == (tokens * 3) \div 4

word_chunk_size(cfg) == WordsFor(cfg.CHUNK_SIZE)

word_overlap(cfg) == WordsFor(cfg.CHUNK_OVERLAP)

\* lines 109-116: the body of `for i in range(0, len(words), size - overlap)`
RECURSIVE ChunkLoop(_, _, _, _, _, _)
ChunkLoop(words, i, size, stride, page, acc) ==
    IF i >= Len(words) THEN acc
    ELSE LET chunk_words == Slice(words, i, i + size) IN
         ChunkLoop(words, i + stride, size, stride, page,
                   IF chunk_words # <<>>
                   THEN Append(acc, [text |-> join(chunk_words), page |-> page,
                                     chunk_index |-> Len(acc)])
                   ELSE acc)

\* Only the chunks of full size kept: the final partial chunk is dropped.
chunk_text_DropsTail(cfg, page_text, page) ==
    SelectSeq(ChunkLoop(split(page_text), 0, word_chunk_size(cfg),
                        word_chunk_size(cfg) - word_overlap(cfg), page, <<>>),
              LAMBDA c : Len(split(c.text)) = word_chunk_size(cfg))

\* lines 90-118
chunk_text(cfg, page_text, page) ==
    ChunkLoop(split(page_text), 0, word_chunk_size(cfg),
              word_chunk_size(cfg) - word_overlap(cfg), page, <<>>)

\* The chunk settings tried: the shipped ones and smaller ones, as
\* <<CHUNK_SIZE, CHUNK_OVERLAP>> in tokens; each gives overlap < size in words.
ChunkSettings == {<<CHUNK_SIZE, CHUNK_OVERLAP>>, <<8, 2>>, <<8, 4>>, <<6, 3>>, <<4, 2>>}

\* A page of n words: single spaces between the words, or a page with leading,
\* doubled and trailing whitespace.
RECURSIVE PageText(_, _)
PageText(n, ragged) ==
    IF n = 0 THEN (IF ragged THEN <<Space, Space>> ELSE <<>>)
    ELSE IF n = 1 THEN (IF ragged THEN <<Space, WordChar(1), Space>> ELSE <<WordChar(1)>>)
    ELSE PageText(n - 1, ragged) \o (IF ragged THEN <<Space>> ELSE <<>>)
                                 \o <<Space, WordChar(n)>>

InitChunk ==
    /\ \E setting \in ChunkSettings :
          config = [DefaultConfig EXCEPT !.CHUNK_SIZE = setting[1],
                                         !.CHUNK_OVERLAP = setting[2]]
    /\ \E n \in 0..MaxWords, ragged \in BOOLEAN : text = PageText(n, ragged)
    /\ chunks = <<>>
    /\ chunked = FALSE
    /\ budget = 0
    /\ sessions = {}
    /\ InitAgent
    /\ InitIndexed

ChunkText ==
    /\ ~chunked
    /\ chunks' = chunk_text(config, text, 1)
    /\ chunked' = TRUE
    /\ UNCHANGED <<config, sessions, budget, storeVars, agentVars, text, indexVars,
                   search_log>>

NextChunk == ChunkText

SpecChunk == InitChunk /\ [][NextChunk]_vars

(***************************************************************************)
(* The tool layer and the ingestion called on their own: ingest_chunks on  *)
(* a document's chunks and a list of embeddings, search_manuals and        *)
(* search_doctrine on a query and a filter value.                          *)
(***************************************************************************)
\* The embedding lists ingest_chunks may be handed for a document: one vector
\* per chunk, [] (generate_embeddings returns it when the gateway fails), one
\* vector too few or too many, or the first vector of another width.
EmbeddingLists(dim, doc_chunks) ==
    LET full == generate_embeddings(dim, doc_chunks) IN
    { full,
      <<>>,
      SubSeq(full, 1, Len(full) - 1),
      Append(full, Embedding(dim, 4)),
      [full EXCEPT ![1] = Embedding(NarrowDim, full[1].dir)] }

\* The values a search tool is given for manual_type or doctrine_area.
FilterValues ==
    {None, "", "maintenance", "safety", "training", "Maintenance", "tactics",
     "strategy", "TACTICS", "classified"}

SearchToolNames == {"search_manuals", "search_doctrine"}

Recognized(name, value) ==
    IF name = "search_manuals" THEN value \in Range(MANUAL_TYPES)
    ELSE value \in Range(DOCTRINE_AREAS)

FilterKey(name) == IF name = "search_manuals" THEN "manual_type" ELSE "doctrine_area"

WithFilter(name, query, value) ==
    IF value = None THEN [query |-> query] ELSE (FilterKey(name) :> value) @@ [query |-> query]

\* The collection as init_qdrant_client creates it (init_demo.py lines 33-41):
\* empty, of width config.EMBEDDING_DIM.
InitIndex ==
    /\ \/ config = DefaultConfig
       \/ config = [DefaultConfig EXCEPT !.TOP_K_RESULTS = ShortTopK]
    /\ index = <<>>
    /\ next_uuid = 0
    /\ last_call = NoCall
    /\ budget = 0
    /\ sessions = {}
    /\ InitAgent
    /\ InitChunker

\* Ingestion is a batch job of its own (ingest_documents.py): the queries
\* come after it, and a behaviour ends with one search call.
Ingesting == last_call.op \in {"none", "ingest_chunks"}

WidthsFit(dim, points) == \A k \in 1..Len(points) : points[k].vector.dim = dim

\* ingest_chunks raises at line 28 and nothing was built or sent.
IngestRaises ==
    \E doc_chunks \in Documents :
    \E embeddings \in EmbeddingLists(config.EMBEDDING_DIM, doc_chunks) :
       /\ Ingesting
       /\ ~LengthsMatch(doc_chunks, embeddings)
       /\ last_call' = [op |-> "ingest_chunks", chunks |-> doc_chunks,
                        embeddings |-> embeddings, sent |-> <<>>,
                        raised |-> "ValueError: Number of chunks must match number of embeddings"]
       /\ UNCHANGED <<config, sessions, budget, storeVars, agentVars, chunkVars,
                      search_log, index, next_uuid>>

\* ingest_chunks, lines 30-58: the points are built and sent in one upsert.
\* Nothing in src/ looks at the width of a vector: what the engine does with a
\* point of another width than the collection's is its own affair, it may
\* store the batch or refuse it.
IngestUpserts ==
    \E doc_chunks \in Documents :
    \E embeddings \in EmbeddingLists(config.EMBEDDING_DIM, doc_chunks) :
    \E engine \in {"stores", "refuses"} :
       LET points == Points(doc_chunks, embeddings, next_uuid) IN
       /\ Ingesting
       /\ LengthsMatch(doc_chunks, embeddings)
       /\ next_uuid + Len(points) <= MaxPoints
       /\ engine = "refuses" => ~WidthsFit(config.EMBEDDING_DIM, points)
       /\ next_uuid' = next_uuid + Len(points)
       /\ index' = IF engine = "stores" THEN client_upsert(index, points) ELSE index
       /\ last_call' = [op |-> "ingest_chunks", chunks |-> doc_chunks,
                        embeddings |-> embeddings, sent |-> points,
                        raised |-> IF engine = "stores" THEN "none" ELSE "engine error"]
       /\ UNCHANGED <<config, sessions, budget, storeVars, agentVars, chunkVars,
                      search_log>>

\* search_manuals or search_doctrine, called as execute_tool calls them.
CallSearchTool ==
    \E name \in SearchToolNames, value \in FilterValues, env \in SearchEnvs :
       LET out == SearchTool(name, WithFilter(name, Query, value), index, config, env) IN
       /\ Ingesting
       /\ last_call' = [op |-> name, query |-> Query, value |-> value, env |-> env,
                        issued |-> out.issued, raised |-> out.raised,
                        returned |-> out.value]
       /\ UNCHANGED <<config, sessions, budget, storeVars, agentVars, chunkVars,
                      search_log, index, next_uuid>>

NextIndex == IngestRaises \/ IngestUpserts \/ CallSearchTool

SpecIndex == InitIndex /\ [][NextIndex]_vars

(***************************************************************************)
(* Vocabulary of the properties.                                           *)
(***************************************************************************)
Ended(r) == pc[r] \in {"done", "raised"}

MidRound(r) == pc[r] \in {"tools", "log_append", "log_write"}

\* The number an audit identifier "AUD-dddddd" spells.
RECURSIVE DigitsValue(_)
DigitsValue(ds) ==
    IF ds = <<>> THEN 0 ELSE 10 * DigitsValue(SubSeq(ds, 1, Len(ds) - 1)) + ds[Len(ds)]

AuditNumber(audit_id) == DigitsValue(Tail(audit_id))

\* The responses so far that requested tools: each left one assistant message.
AssistantTurns(r) ==
    Cardinality({i \in 1..Len(messages[r]) : messages[r][i].role = "assistant"})

\* The tool messages of the history that carry a result, not an error text.
ResultMessages(r) ==
    {i \in 1..Len(messages[r]) :
        /\ messages[r][i].role = "tool"
        /\ messages[r][i].content[1] = "json"}

StepLimitAnswer == "Unable to complete request within step limit."

\* The spellings of a classification level that log_access must accept, and
\* the one it must reject, among those the callers pass.
AcceptedSpellings == {"secret", "SECRET", "Secret", "top_secret"}

RejectedSpellings == {"invalid_level"}

\* Run r is at a log_access call that carries a document and a level in `levels`
\* (its user_id given or left to the loop to inject).
LogCallWith(r, levels) ==
    /\ MidRound(r)
    /\ pending[r] # <<>>
    /\ LET tc == Head(pending[r]) IN
        /\ tc.name = "log_access"
        /\ tc.arguments[1] = "json"
        /\ tc.arguments[2].type = "dict"
        /\ {"document_id", "classification_level"} \subseteq DOMAIN tc.arguments[2].items
        /\ DOMAIN tc.arguments[2].items
              \subseteq {"document_id", "classification_level", "user_id"}
        /\ tc.arguments[2].items.classification_level \in levels

(***************************************************************************)
(* C1.  No tool call the reasoning capability requests aborts the query:   *)
(* whatever its name, its argument string and its outcome, run() ends by   *)
(* returning a final answer or the step-limit answer; the one other end    *)
(* the formula allows is a failure of the reasoning call itself (C8).      *)
(* Fails: the argument string is parsed (agent.py line 85) before the try  *)
(* block opens, and a string that is not JSON makes run() raise.           *)
(***************************************************************************)
C1_NoToolCallAbortsRun ==
    \A r \in Runs :
        Ended(r) =>
            \/ /\ result[r].kind = "return"
               /\ \/ result[r].answer = StepLimitAnswer
                  \/ response[r].tool_calls = <<>>
            \/ /\ result[r].kind = "exception"
               /\ result[r].raised_by = "client.chat"

(***************************************************************************)
(* C2.  When every response requests at least one tool call, run() makes   *)
(* exactly MAX_AGENT_STEPS calls of the reasoning capability and returns   *)
(* the fixed step-limit answer with steps_taken = MAX_AGENT_STEPS and the  *)
(* trace of every round's executed calls.                                  *)
(* Fails for the reason C1 fails: a request whose arguments are not JSON   *)
(* ends run() by an exception in the round that carries it.                *)
(***************************************************************************)
C2_AlwaysToolsEndsAtStepLimit ==
    \A r \in Runs :
        (Ended(r) /\ AssistantTurns(r) > 0 /\ AssistantTurns(r) = chat_calls[r])
            => /\ chat_calls[r] = config.MAX_AGENT_STEPS
               /\ result[r].kind = "return"
               /\ result[r].answer = StepLimitAnswer
               /\ result[r].steps_taken = config.MAX_AGENT_STEPS
               /\ Len(result[r].tool_calls) = Cardinality(ResultMessages(r))

(***************************************************************************)
(* C3.  Audit identifiers stay unique, strictly increasing and gap-free    *)
(* when several queries call log_access at once on the shared store: the   *)
(* i-th entry of the store spells the number i.                            *)
(* Fails: two calls read the same len(audit_log_store) before either       *)
(* appends, and both entries get the same identifier.                      *)
(***************************************************************************)
C3_ConcurrentAuditIdsUnique ==
    \A i \in 1..Len(audit_log_store) :
        /\ AuditNumber(audit_log_store[i].audit_id) = i
        /\ \A j \in 1..Len(audit_log_store) :
              i # j => audit_log_store[i].audit_id # audit_log_store[j].audit_id

(***************************************************************************)
(* C4.  Under sequential log_access calls, valid and invalid, the audit    *)
(* store is append-only and its identifiers are unique and increasing:     *)
(* every step keeps the entries it found and adds at most one at the end,  *)
(* and the i-th entry carries the identifier AUD-00000i.                   *)
(***************************************************************************)
C4_SequentialStoreAppendOnly ==
    [][/\ Len(audit_log_store') \in {Len(audit_log_store), Len(audit_log_store) + 1}
       /\ SubSeq(audit_log_store', 1, Len(audit_log_store)) = audit_log_store
       /\ \A i \in 1..Len(audit_log_store') :
             audit_log_store'[i].audit_id = <<"AUD-", 0, 0, 0, 0, 0, i>>]_vars

\* An invalid call and then a valid one have returned: the valid one got the
\* first identifier.
C4_Witness ==
    \E r \in Runs :
        /\ Len(all_tool_calls[r]) >= 2
        /\ all_tool_calls[r][1].tool = "log_access"
        /\ all_tool_calls[r][1].result_summary = <<"str", FALSE>>
        /\ all_tool_calls[r][2].tool = "log_access"
        /\ all_tool_calls[r][2].result_summary = <<"str", TRUE>>
        /\ Len(audit_log_store) = 1

(***************************************************************************)
(* C5.  log_access called with a classification level whose lower-cased    *)
(* value is not an allowed one appends nothing, neither to the store nor   *)
(* to the log file, and returns success false with an error that names the *)
(* allowed values.                                                         *)
(***************************************************************************)
C5_InvalidLevelAppendsNothing ==
    [][\A r \in Runs :
          LogCallWith(r, RejectedSpellings) =>
              /\ audit_log_store' = audit_log_store
              /\ log_file' = log_file
              /\ pc'[r] = "tools"
              /\ pending'[r] # pending[r] =>
                    /\ tool_results'[r] # <<>>
                    /\ LET out == tool_results'[r][Len(tool_results'[r])].outputs[1] IN
                        /\ "result" \in DOMAIN out
                        /\ out.result[2].type = "dict"
                        /\ out.result[2].items.success = FALSE
                        /\ out.result[2].items.error[2]
                              = <<"unclassified", "confidential", "secret", "top_secret">>]_vars

\* A call with an invalid level has returned.
C5_Witness ==
    \E r \in Runs : \E k \in 1..Len(all_tool_calls[r]) :
        /\ all_tool_calls[r][k].tool = "log_access"
        /\ all_tool_calls[r][k].parameters.items.classification_level = "invalid_level"
        /\ all_tool_calls[r][k].result_summary = <<"str", FALSE>>

(***************************************************************************)
(* C6.  log_access called with a valid classification level in any letter  *)
(* case is not rejected and appends exactly one entry, whose identifier is *)
(* strictly greater than that of every entry before it; when the log line  *)
(* is written the call reports success with that identifier.  Identical    *)
(* calls are not deduplicated: each goes through the same three steps.     *)
(***************************************************************************)
C6_ValidLevelAppendsOne ==
    [][\A r \in Runs :
          LogCallWith(r, AcceptedSpellings) =>
              /\ (pc[r] = "tools" /\ <<pc[r], pending[r]>>' # <<pc[r], pending[r]>>) =>
                    /\ pc'[r] = "log_append"
                    /\ audit_log_store' = audit_log_store
              /\ (pc[r] = "log_append" /\ pc'[r] # "log_append") =>
                    /\ pc'[r] = "log_write"
                    /\ Len(audit_log_store') = Len(audit_log_store) + 1
                    /\ SubSeq(audit_log_store', 1, Len(audit_log_store)) = audit_log_store
                    /\ \A i \in 1..Len(audit_log_store) :
                          AuditNumber(audit_log_store[i].audit_id)
                              < AuditNumber(audit_log_store'[Len(audit_log_store')].audit_id)
              /\ (pc[r] = "log_write" /\ pc'[r] # "log_write") =>
                    /\ audit_log_store' = audit_log_store
                    /\ log_file' # log_file =>
                          /\ Len(all_audit_logs'[r]) = Len(all_audit_logs[r]) + 1
                          /\ LET res == all_audit_logs'[r][Len(all_audit_logs'[r])] IN
                              /\ res.items.success = TRUE
                              /\ res.items.audit_id
                                    = audit_log_store[Len(audit_log_store)].audit_id]_vars

\* Two identical calls spelling the level "SECRET" have both reported success.
C6_Witness ==
    \E r \in Runs :
        /\ Len(all_audit_logs[r]) = 2
        /\ Len(all_tool_calls[r]) = 2
        /\ all_tool_calls[r][1] = all_tool_calls[r][2]
        /\ all_tool_calls[r][1].parameters.items.classification_level = "SECRET"
        /\ Len(audit_log_store) = 2
        /\ all_audit_logs[r][1].items.audit_id # all_audit_logs[r][2].items.audit_id

(***************************************************************************)
(* C7.  A tool call that raises during execution does not crash the loop:  *)
(* a tool message with the error text, tagged with the call's identifier,  *)
(* is appended to the history, and the loop goes on to the next reasoning  *)
(* call with it.  Stated for a call of an unknown tool, which always       *)
(* raises: once the call has been executed and the loop has left the       *)
(* round (it is at the next reasoning call, or run() has ended), the       *)
(* history holds that message after the assistant message that requested   *)
(* the call.                                                               *)
(* Fails for the reason C1 fails: a later call of the same response whose  *)
(* arguments are not JSON ends run() before the round's tool messages are  *)
(* appended.                                                               *)
(***************************************************************************)
C7_RaisingCallLeavesErrorMessage ==
    \A r \in Runs :
        (pc[r] \in {"chat", "done", "raised"}) =>
            \A i \in 1..Len(messages[r]) :
                messages[r][i].role = "assistant" =>
                    \A k \in 1..Len(messages[r][i].tool_calls) :
                        LET call == messages[r][i].tool_calls[k] IN
                        (/\ call.function.name \notin ToolNames
                         /\ \A p \in 1..Len(pending[r]) : pending[r][p].id # call.id) =>
                            \E j \in (i + 1)..Len(messages[r]) :
                                /\ messages[r][j].role = "tool"
                                /\ messages[r][j].tool_call_id = call.id
                                /\ messages[r][j].content[1] = "Error executing "
                                /\ messages[r][j].content[2] = call.function.name

(***************************************************************************)
(* C8.  A failure of the reasoning call itself is never fatal to run():    *)
(* it is caught, and run() returns a result instead of raising.            *)
(* Fails: client.chat is called outside every try block (agent.py lines    *)
(* 53-58), so its exception leaves run().                                  *)
(***************************************************************************)
C8_ChatFailureNotFatal ==
    \A r \in Runs :
        pc[r] = "raised" => result[r].raised_by # "client.chat"

(***************************************************************************)
(* C9.  When the first response requests no tool call, run() returns after *)
(* one round: the answer is the response's text (the placeholder "No       *)
(* response generated" when the response has no content), steps_taken is   *)
(* 1, the tool-call trace and the audit trace are empty, and the audit     *)
(* store and the log file are as they were.                                *)
(***************************************************************************)
C9_ImmediateAnswer ==
    \A r \in Runs :
        (Ended(r) /\ chat_calls[r] = 1 /\ response[r].tool_calls = <<>>
                  /\ result[r].kind = "return") =>
            /\ pc[r] = "done"
            /\ result[r].steps_taken = 1
            /\ result[r].tool_calls = <<>>
            /\ result[r].audit_logs = <<>>
            /\ response[r].content # <<>> => result[r].answer = response[r].content[1].text
            /\ response[r].content = <<>> => result[r].answer = "No response generated"
            /\ Len(messages[r]) = 1
            /\ sessions = {r} => (audit_log_store = <<>> /\ log_file = <<>>)

\* The first response was a final one with a text, and run() has returned.
C9_Witness ==
    \E r \in Runs :
        /\ pc[r] = "done"
        /\ chat_calls[r] = 1
        /\ response[r].tool_calls = <<>>
        /\ response[r].content # <<>>
        /\ result[r].answer = "Inspect daily."

(***************************************************************************)
(* C10.  For a page of N words, word chunk size C and word overlap O < C,  *)
(* chunk_text returns exactly 1 chunk when 0 < N <= C and exactly          *)
(* ceil((N - O) / (C - O)) chunks when N > C.                              *)
(* Fails: the loop starts a chunk at every multiple of C - O below N, so   *)
(* it returns ceil(N / (C - O)) chunks; the surplus chunks hold only words *)
(* the chunk before them already holds.                                    *)
(***************************************************************************)
CeilDiv(a, b) == (a + b - 1) \div b

C10_ChunkCount ==
    chunked =>
        LET N == Len(split(text))
            C == word_chunk_size(config)
            O == word_overlap(config)
        IN /\ (0 < N /\ N <= C) => Len(chunks) = 1
           /\ N > C => Len(chunks) = CeilDiv(N - O, C - O)

(***************************************************************************)
(* C11.  For every page text and every two consecutive chunks chunk[i],    *)
(* chunk[i+1] that chunk_text produces from it, the last O words of        *)
(* chunk[i] equal the first O words of chunk[i+1], O being the configured  *)
(* word overlap.                                                           *)
(* Fails: the loop starts a chunk every C - O words also when fewer than   *)
(* O words are left, so the last chunk can hold fewer than O words (and    *)
(* the chunk before it can be shorter than C): their ends do not agree.    *)
(***************************************************************************)
\* words[-k:]
LastWords(words, k) ==
    SubSeq(words, IF Len(words) > k THEN Len(words) - k + 1 ELSE 1, Len(words))

\* words[:k]
FirstWords(words, k) == SubSeq(words, 1, IF Len(words) > k THEN k ELSE Len(words))

C11_ConsecutiveChunksOverlap ==
    chunked =>
        LET O == word_overlap(config) IN
        \A i \in 1..(Len(chunks) - 1) :
            LastWords(split(chunks[i].text), O) = FirstWords(split(chunks[i + 1].text), O)

(***************************************************************************)
(* C12.  Every chunk chunk_text produces is non-empty and holds at most C  *)
(* words (C the configured word chunk size), and the chunk_index values    *)
(* are 0, 1, 2, ... in the order of emission.                              *)
(***************************************************************************)
C12_ChunksBoundedAndIndexed ==
    chunked =>
        \A i \in 1..Len(chunks) :
            /\ chunks[i].text # <<>>
            /\ Len(split(chunks[i].text)) >= 1
            /\ Len(split(chunks[i].text)) <= word_chunk_size(config)
            /\ chunks[i].chunk_index = i - 1

\* A page cut into three or more chunks, the last one shorter than C words.
C12_Witness ==
    /\ chunked
    /\ Len(chunks) >= 3
    /\ Len(split(chunks[1].text)) = word_chunk_size(config)
    /\ Len(split(chunks[Len(chunks)].text)) < word_chunk_size(config)

(***************************************************************************)
(* C13.  chunk_text on an empty or whitespace-only page text yields no     *)
(* chunk, and on a page of exactly one word yields exactly one chunk whose *)
(* text is that word.                                                      *)
(***************************************************************************)
C13_EmptyAndSingleWordPages ==
    chunked =>
        /\ (\A k \in 1..Len(text) : text[k] = Space) => chunks = <<>>
        /\ Len(split(text)) = 1 =>
              /\ Len(chunks) = 1
              /\ chunks[1].text = split(text)[1]

\* A whitespace-only page that is not the empty text has been chunked.
C13_Witness ==
    /\ chunked
    /\ text # <<>>
    /\ \A k \in 1..Len(text) : text[k] = Space
    /\ chunks = <<>>

(***************************************************************************)
(* Vocabulary of the index store properties.                               *)
(***************************************************************************)
SearchCalled == last_call.op \in SearchToolNames

DocumentTypeOf(name) == IF name = "search_manuals" THEN "manual" ELSE "doctrine"

\* The stored points a formatted result can have come from.
SourcesOf(res) ==
    {i \in 1..Len(index) :
        /\ index[i].payload.manual_name = res.manual_name
        /\ index[i].payload.page = res.page
        /\ index[i].payload.text = res.text}

\* The stored points that meet every condition the call asks for.
Wanted(name, value) ==
    {i \in 1..Len(index) :
        /\ index[i].payload.document_type = DocumentTypeOf(name)
        /\ Recognized(name, value) =>
              /\ FilterKey(name) \in DOMAIN index[i].payload
              /\ index[i].payload[FilterKey(name)] = value}

(***************************************************************************)
(* C14.  search_manuals called with a manual_type outside MANUAL_TYPES     *)
(* (also a wrong-case or empty one) sends the index store the same query   *)
(* and returns the same results as search_manuals called with no           *)
(* manual_type; likewise search_doctrine with a doctrine_area outside      *)
(* DOCTRINE_AREAS.                                                         *)
(***************************************************************************)
C14_UnrecognizedFilterIsNoFilter ==
    (/\ SearchCalled
     /\ last_call.value # None
     /\ ~Recognized(last_call.op, last_call.value)) =>
        LET plain == SearchTool(last_call.op, [query |-> last_call.query], index, config,
                                last_call.env)
        IN /\ last_call.issued = plain.issued
           /\ last_call.raised = plain.raised
           /\ last_call.returned = plain.value

\* search_manuals with the wrong-case type "Maintenance" has returned a chunk
\* of the safety manual next to one of the maintenance manual.
C14_Witness ==
    /\ last_call.op = "search_manuals"
    /\ last_call.value = "Maintenance"
    /\ last_call.env = "ok"
    /\ \E k \in 1..Len(last_call.returned) :
          last_call.returned[k].manual_name = "Safety Guidelines 2024"
    /\ \E k \in 1..Len(last_call.returned) :
          last_call.returned[k].manual_name = "Equipment Maintenance Manual v3.2"

(***************************************************************************)
(* C15.  Every result of search_manuals comes from a record of             *)
(* document_type "manual" (and of the requested manual_type when a         *)
(* recognized one is given), every result of search_doctrine from a record *)
(* of document_type "doctrine" (and of the requested doctrine_area when    *)
(* recognized): the conditions hold together.  When no record meets them,  *)
(* the result is the empty list and no error.                              *)
(***************************************************************************)
C15_ResultsMeetEveryCondition ==
    SearchCalled =>
        /\ ~last_call.raised =>
              \A k \in 1..Len(last_call.returned) :
                 /\ SourcesOf(last_call.returned[k]) # {}
                 /\ SourcesOf(last_call.returned[k]) \subseteq Wanted(last_call.op, last_call.value)
        /\ (last_call.env = "ok" /\ Wanted(last_call.op, last_call.value) = {}) =>
              /\ ~last_call.raised
              /\ last_call.returned = <<>>

\* search_manuals for the type "safety" has returned a result from a
\* collection that also holds chunks of a maintenance manual.
C15_Witness ==
    /\ last_call.op = "search_manuals"
    /\ last_call.value = "safety"
    /\ last_call.returned # <<>>
    /\ \E i \in 1..Len(index) :
          /\ index[i].payload.document_type = "manual"
          /\ index[i].payload.manual_type = "maintenance"

(***************************************************************************)
(* C16.  When the index store's search call fails inside search_manuals or *)
(* search_doctrine, the tool returns [] and does not raise to its caller.  *)
(* Fails: client.search stands in no try in VectorStore.search, and        *)
(* neither tool catches: the exception leaves the tool.                    *)
(***************************************************************************)
C16_IndexFailureGivesEmptyList ==
    (SearchCalled /\ last_call.env = "index_error") =>
        /\ ~last_call.raised
        /\ last_call.returned = <<>>

(***************************************************************************)
(* C17.  When the embedding gateway call fails during search_manuals or    *)
(* search_doctrine, the tool returns [] without raising and without        *)
(* sending the index store any search.                                     *)
(***************************************************************************)
C17_EmbedFailureGivesEmptyList ==
    (SearchCalled /\ last_call.env = "embed_failed") =>
        /\ ~last_call.raised
        /\ last_call.returned = <<>>
        /\ last_call.issued = <<>>

\* The gateway has failed during a search_manuals call over a collection that
\* holds a manual.
C17_Witness ==
    /\ last_call.op = "search_manuals"
    /\ last_call.env = "embed_failed"
    /\ \E i \in 1..Len(index) : index[i].payload.document_type = "manual"

(***************************************************************************)
(* C18.  The control loop records whether a search call matched no record  *)
(* or its embedding call failed: the two cases leave different entries in  *)
(* the tool-call trace or in the conversation history of run().  Stated    *)
(* for the parts of the entries that carry the outcome, the result summary *)
(* of the trace record and the content of the tool message.                *)
(* Fails: both calls return [], so both leave the summary "0 results" and  *)
(* the content "[]"; the failure is only printed by embed_query.           *)
(***************************************************************************)
\* The content of the tool message that answers the call `id`, once appended.
ContentsFor(r, id) ==
    {messages[r][i].content : i \in {k \in 1..Len(messages[r]) :
                                        /\ messages[r][k].role = "tool"
                                        /\ messages[r][k].tool_call_id = id}}

C18_NoMatchAndEmbedFailureDiffer ==
    \A r \in Runs : \A a, b \in 1..Len(search_log[r]) :
        LET failed == search_log[r][a]
            empty == search_log[r][b]
        IN (/\ failed.env = "embed_failed"
            /\ empty.env = "ok" /\ empty.hits = 0
            /\ ContentsFor(r, failed.id) # {}
            /\ ContentsFor(r, empty.id) # {}) =>
               \/ all_tool_calls[r][failed.trace].result_summary
                     # all_tool_calls[r][empty.trace].result_summary
               \/ ContentsFor(r, failed.id) # ContentsFor(r, empty.id)

(***************************************************************************)
(* C19.  ingest_chunks called with a chunk list and an embedding list of   *)
(* different lengths fails with the length-mismatch error and inserts no   *)
(* record: the index store is as it was before the call.                   *)
(***************************************************************************)
C19_LengthMismatchInsertsNothing ==
    [][(/\ last_call'.op = "ingest_chunks"
        /\ last_call' # last_call
        /\ Len(last_call'.chunks) # Len(last_call'.embeddings)) =>
           /\ last_call'.raised = "ValueError: Number of chunks must match number of embeddings"
           /\ last_call'.sent = <<>>
           /\ index' = index]_vars

\* A two-chunk document has been handed over with one embedding, the
\* collection already holding points.
C19_Witness ==
    /\ last_call.op = "ingest_chunks"
    /\ Len(last_call.chunks) = 2
    /\ Len(last_call.embeddings) = 1
    /\ last_call.raised # "none"
    /\ index # <<>>

SameChunk(p, q) ==
    /\ p.payload.manual_name = q.payload.manual_name
    /\ p.payload.page = q.payload.page
    /\ p.payload.text = q.payload.text

\* Stated for the records whose vector has the collection's width, those
\* every engine stores.
C21_OneRecordPerChunk ==
    \A i, j \in 1..Len(index) :
        (/\ index[i].vector.dim = config.EMBEDDING_DIM
         /\ index[j].vector.dim = config.EMBEDDING_DIM
         /\ SameChunk(index[i], index[j])) => i = j

(***************************************************************************)
(* C22.  Two run() invocations executing concurrently on the shared agent  *)
(* are independent except for the index store and the audit store: each    *)
(* run's history, tool-call trace, audit trace and steps_taken reflect     *)
(* only the reasoning responses and tool calls of that run, under every    *)
(* interleaving.  A step changes the history, the traces, the loop         *)
(* variable or the result of a run only when that run takes the step, and  *)
(* what a run returns is what its own calls left: steps_taken is the       *)
(* number of its reasoning calls, its trace has as many records as its     *)
(* history has result messages.                                            *)
(***************************************************************************)
\* The run r takes the step.
Acting(r) ==
    \/ pc'[r] # pc[r]
    \/ pending'[r] # pending[r]
    \/ frame'[r] # frame[r]

\* The step changes what run r has recorded.
RecordsChange(r) ==
    \/ messages'[r] # messages[r]
    \/ all_tool_calls'[r] # all_tool_calls[r]
    \/ all_audit_logs'[r] # all_audit_logs[r]
    \/ step'[r] # step[r]
    \/ result'[r] # result[r]

C22_ConcurrentRunsIndependent ==
    [][\A r \in Runs :
          /\ RecordsChange(r) => Acting(r)
          /\ (pc'[r] = "done" /\ pc[r] # "done") =>
                /\ result'[r].steps_taken = chat_calls'[r]
                /\ result'[r].tool_calls = all_tool_calls[r]
                /\ result'[r].audit_logs = all_audit_logs[r]
                /\ Len(result'[r].tool_calls) = Cardinality(ResultMessages(r))]_vars

\* Both queries have returned, one with a tool-call trace and an audit entry,
\* the other with a different trace.
C22_Witness ==
    /\ \A r \in Runs : pc[r] = "done"
    /\ result[1].tool_calls # <<>>
    /\ result[1].audit_logs # <<>>
    /\ result[2].tool_calls # result[1].tool_calls

(***************************************************************************)
(* Vocabulary of the round structure: what the history holds.              *)
(***************************************************************************)
\* The run r is between two rounds, or has ended.
BetweenRounds(r) == pc[r] \in {"chat", "done", "raised"}

\* The calls the assistant messages of run r list.
Requested(r) ==
    UNION {Range(messages[r][i].tool_calls) :
              i \in {m \in 1..Len(messages[r]) : messages[r][m].role = "assistant"}}

(***************************************************************************)
(* C23.  In every round of run() where tools are requested, the history is *)
(* extended by one assistant message listing the requested calls, followed *)
(* by exactly one tool message per requested call, in request order, each  *)
(* tagged with its call's identifier; the next reasoning call happens only *)
(* after all of them are appended.  Once the loop has left a round, every  *)
(* assistant message of n calls is followed by n tool messages carrying    *)
(* the n identifiers in order, and then by the next assistant message or   *)
(* the end of the history.                                                 *)
(* Fails for the reason C1 fails: a requested call whose arguments are not *)
(* JSON ends run() inside the round, after the assistant message and       *)
(* before any tool message of the round is appended.                       *)
(***************************************************************************)
C23_RoundExtendsHistory ==
    \A r \in Runs :
        BetweenRounds(r) =>
            \A i \in 1..Len(messages[r]) :
                messages[r][i].role = "assistant" =>
                    LET n == Len(messages[r][i].tool_calls) IN
                    /\ n >= 1
                    /\ i + n <= Len(messages[r])
                    /\ \A k \in 1..n :
                          /\ messages[r][i + k].role = "tool"
                          /\ messages[r][i + k].tool_call_id = messages[r][i].tool_calls[k].id
                    /\ i + n < Len(messages[r]) => messages[r][i + n + 1].role = "assistant"

(***************************************************************************)
(* C24.  run() injects the caller-supplied user_id into a log_access       *)
(* call's arguments exactly when the arguments contain no user_id key; a   *)
(* user_id the arguments supply is never overwritten, and no user_id is    *)
(* injected into calls of other tools.  Stated on the step that executes a *)
(* call: the arguments the call is executed and reported with are the      *)
(* parsed ones, with user_id set to the caller's for a log_access call     *)
(* that had none and nothing else changed; the audit entry being built     *)
(* carries the same user_id.                                               *)
(***************************************************************************)
\* The arguments the step reports the call of run r with, once executed.
ExecutedArgs(r) ==
    json_loads(tool_results'[r][Len(tool_results'[r])].call.function.arguments)

C24_UserIdInjectedWhenAbsent ==
    [][\A r \in Runs :
          (AtCall(r) /\ json_loads_ok(Head(pending[r]).arguments)) =>
              LET tc == Head(pending[r])
                  parsed == json_loads(tc.arguments)
                  absent == /\ tc.name = "log_access"
                            /\ parsed.type = "dict"
                            /\ "user_id" \notin DOMAIN parsed.items
              IN /\ Len(tool_results'[r]) = Len(tool_results[r]) + 1 =>
                       /\ ~absent => ExecutedArgs(r) = parsed
                       /\ absent =>
                             /\ DOMAIN ExecutedArgs(r).items
                                   = DOMAIN parsed.items \cup {"user_id"}
                             /\ ExecutedArgs(r).items.user_id = user_id[r]
                             /\ \A k \in DOMAIN parsed.items :
                                   ExecutedArgs(r).items[k] = parsed.items[k]
                 /\ pc'[r] = "log_append" =>
                       /\ frame'[r].audit_entry.user_id
                             = IF absent THEN user_id[r] ELSE parsed.items.user_id
                       /\ frame'[r].tool_args.items.user_id = frame'[r].audit_entry.user_id]_vars

\* One query has logged an access under the user_id its call supplied and
\* another access under the caller's, injected.
C24_Witness ==
    \E r \in Runs : \E i, j \in 1..Len(all_tool_calls[r]) :
        /\ pc[r] = "done"
        /\ Len(audit_log_store) = 2
        /\ all_tool_calls[r][i].tool = "log_access"
        /\ all_tool_calls[r][i].parameters.items.user_id = "alice"
        /\ all_tool_calls[r][j].tool = "log_access"
        /\ all_tool_calls[r][j].parameters.items.user_id = user_id[r]
        /\ user_id[r] # "alice"
        /\ \E k \in 1..Len(audit_log_store) : audit_log_store[k].user_id = "alice"

(***************************************************************************)
(* Vocabulary of the returned traces: the history of a returned query.     *)
(***************************************************************************)
\* The requested call a tool message of run r answers.
RequestOf(r, m) == CHOOSE c \in Requested(r) : c.id = m.tool_call_id

\* The tool messages of run r that carry a tool's result, in order.
ResultsIn(r) ==
    SelectSeq(messages[r], LAMBDA m : m.role = "tool" /\ m.content[1] = "json")

\* The tool messages of run r that carry an error text, in order.
ErrorsIn(r) ==
    SelectSeq(messages[r], LAMBDA m : m.role = "tool" /\ m.content[1] = "Error executing ")

\* Those of the result messages that answer a log_access call and say
\* success true.
LoggedIn(r) ==
    SelectSeq(ResultsIn(r),
              LAMBDA m : /\ RequestOf(r, m).function.name = "log_access"
                         /\ m.content[2].type = "dict"
                         /\ "success" \in DOMAIN m.content[2].items
                         /\ m.content[2].items.success = TRUE)

\* The positions in the audit store of the entries with the identifier `id`.
StoredAs(id) == {p \in 1..Len(audit_log_store) : audit_log_store[p].audit_id = id}

(***************************************************************************)
(* C25.  The audit trace run() returns contains exactly one entry for each *)
(* log_access call of the query that reported success, in call order, each *)
(* carrying the audit_id of the entry that call appended to the audit      *)
(* store; log_access calls that returned success false or raised add       *)
(* nothing to it.  For a returned query: the audit trace is, entry by      *)
(* entry, what the successful log_access messages of the history carry,    *)
(* each identifier names one entry of the store, which holds the           *)
(* document and the user of that call, and later entries of the trace      *)
(* name later entries of the store.                                        *)
(***************************************************************************)
C25_AuditTraceMatchesSuccessfulCalls ==
    \A r \in Runs :
        pc[r] = "done" =>
            LET logged == LoggedIn(r)
                trace == result[r].audit_logs
            IN /\ Len(trace) = Len(logged)
               /\ \A k \in 1..Len(trace) :
                     /\ trace[k] = logged[k].content[2]
                     /\ Cardinality(StoredAs(trace[k].items.audit_id)) = 1
                     /\ \A p \in StoredAs(trace[k].items.audit_id) :
                           LET args == json_loads(RequestOf(r, logged[k]).function.arguments).items
                           IN /\ audit_log_store[p].document_id = args.document_id
                              /\ audit_log_store[p].user_id
                                    = IF "user_id" \in DOMAIN args THEN args.user_id
                                      ELSE user_id[r]
                     /\ \A j \in 1..Len(trace) :
                           j < k => \A p \in StoredAs(trace[j].items.audit_id),
                                       q \in StoredAs(trace[k].items.audit_id) : p < q

\* A query has returned after a log_access call that was refused and one that
\* succeeded: only the second is in its audit trace.
C25_Witness ==
    \E r \in Runs :
        /\ pc[r] = "done"
        /\ Len(result[r].audit_logs) = 1
        /\ Len(audit_log_store) = 1
        /\ Len(result[r].tool_calls) = 2
        /\ result[r].tool_calls[1].tool = "log_access"
        /\ result[r].tool_calls[1].result_summary = <<"str", FALSE>>
        /\ result[r].tool_calls[2].tool = "log_access"

(***************************************************************************)
(* C26.  The tool-call trace run() returns contains exactly one record     *)
(* (tool name, arguments, result summary) for each tool call that executed *)
(* without raising, in execution order; a call that raised (tool           *)
(* exception, unknown tool name, bad arguments) has a history message but  *)
(* no record in the trace.  For a returned query: every requested call has *)
(* one tool message; the trace is as long as the list of result messages,  *)
(* and its k-th record names the tool of the k-th result message's call,   *)
(* holds that call's arguments (with at most a user_id added) and          *)
(* summarises that message's result; a call of an unknown tool or with     *)
(* arguments that are no mapping has an error message and no result        *)
(* message.                                                                *)
(***************************************************************************)
C26_TraceMatchesSuccessfulCalls ==
    \A r \in Runs :
        pc[r] = "done" =>
            LET results == ResultsIn(r)
                errors == ErrorsIn(r)
                trace == result[r].tool_calls
            IN /\ Len(results) + Len(errors) = Cardinality(Requested(r))
               /\ \A c \in Requested(r) :
                     Cardinality({i \in 1..Len(messages[r]) :
                                     /\ messages[r][i].role = "tool"
                                     /\ messages[r][i].tool_call_id = c.id}) = 1
               /\ Len(trace) = Len(results)
               /\ \A k \in 1..Len(trace) :
                     LET req == RequestOf(r, results[k])
                         args == json_loads(req.function.arguments)
                         res == results[k].content[2]
                     IN /\ trace[k].tool = req.function.name
                        /\ trace[k].parameters.type = "dict"
                        /\ DOMAIN args.items \subseteq DOMAIN trace[k].parameters.items
                        /\ DOMAIN trace[k].parameters.items
                              \subseteq DOMAIN args.items \cup {"user_id"}
                        /\ \A key \in DOMAIN args.items :
                              trace[k].parameters.items[key] = args.items[key]
                        /\ trace[k].result_summary
                              = IF res.type = "list" THEN <<Len(res.items), " results">>
                                ELSE <<"str", res.items.success>>
               /\ \A c \in Requested(r) :
                     (\/ c.function.name \notin ToolNames
                      \/ json_loads(c.function.arguments).type # "dict") =>
                         /\ \E k \in 1..Len(errors) : errors[k].tool_call_id = c.id
                         /\ \A k \in 1..Len(results) : results[k].tool_call_id # c.id

\* A query has returned after a round of two calls, the first of an unknown
\* tool and the second a search: the history has the error message and then
\* the result message, the trace the one record of the search.
C26_Witness ==
    \E r \in Runs :
        /\ pc[r] = "done"
        /\ Len(result[r].tool_calls) = 1
        /\ result[r].tool_calls[1].tool = "search_manuals"
        /\ Len(ErrorsIn(r)) = 1
        /\ RequestOf(r, ErrorsIn(r)[1]).function.name = "delete_all"
        /\ Len(messages[r]) = 4

(***************************************************************************)
(* C27.  Whenever run() returns, steps_taken equals the number of          *)
(* reasoning-capability calls made during that run and is between 1 and    *)
(* MAX_AGENT_STEPS.                                                        *)
(***************************************************************************)
C27_StepsTakenCountsReasoningCalls ==
    \A r \in Runs :
        (pc[r] = "done" /\ result[r].kind = "return") =>
            /\ result[r].steps_taken = chat_calls[r]
            /\ result[r].steps_taken >= 1
            /\ result[r].steps_taken <= config.MAX_AGENT_STEPS

\* A query has returned a final answer after some rounds of tool calls, with
\* rounds to spare under the shipped ceiling.
C27_Witness ==
    \E r \in Runs :
        /\ pc[r] = "done"
        /\ result[r].answer # StepLimitAnswer
        /\ result[r].steps_taken = 3
        /\ chat_calls[r] = 3
        /\ config.MAX_AGENT_STEPS = MAX_AGENT_STEPS

(***************************************************************************)
(* C28.  During any run() the index store's set of records is left         *)
(* unchanged, search_manuals and search_doctrine leave the audit store     *)
(* unchanged, and the audit store changes only by log_access appending one *)
(* entry at its end.  Stated on every step of a query: the collection is   *)
(* the same after it; a step that executes a search call leaves the store  *)
(* and the log file as they were; a step that changes the store is the     *)
(* append of a log_access call, and puts that call's entry after the       *)
(* entries that were there.                                                *)
(***************************************************************************)
C28_SearchReadsLogAppends ==
    [][/\ index' = index
       /\ \A r \in Runs :
             (/\ AtCall(r)
              /\ Head(pending[r]).name \in SearchToolNames
              /\ pending'[r] # pending[r]) =>
                 /\ audit_log_store' = audit_log_store
                 /\ log_file' = log_file
       /\ audit_log_store' # audit_log_store =>
             /\ Len(audit_log_store') = Len(audit_log_store) + 1
             /\ SubSeq(audit_log_store', 1, Len(audit_log_store)) = audit_log_store
             /\ \E r \in Runs :
                   /\ pc[r] = "log_append"
                   /\ Head(pending[r]).name = "log_access"
                   /\ audit_log_store'[Len(audit_log_store')] = frame[r].audit_entry]_vars

\* A query has searched the manuals with hits and logged two accesses, over
\* the collection of the ingested documents.
C28_Witness ==
    \E r \in Runs :
        /\ \E k \in 1..Len(search_log[r]) : search_log[r][k].hits >= 1
        /\ Len(audit_log_store) = 2
        /\ audit_log_store[1] # audit_log_store[2]
        /\ Len(index) >= 2

(***************************************************************************)
(* C29.  For every non-empty page chunk_text drops no text: chunk i        *)
(* consists of the page's words from position i*(C-O) up to at most C      *)
(* words, every word of the page appears in at least one chunk, and the    *)
(* last chunk (also when shorter than C) ends with the page's last word.   *)
(***************************************************************************)
C29_NoTextDropped ==
    (chunked /\ Len(split(text)) >= 1) =>
        LET words == split(text)
            N == Len(words)
            C == word_chunk_size(config)
            O == word_overlap(config)
        IN /\ Len(chunks) >= 1
           /\ \A i \in 0..(Len(chunks) - 1) :
                 /\ i * (C - O) < N
                 /\ split(chunks[i + 1].text)
                       = SubSeq(words, i * (C - O) + 1,
                                IF i * (C - O) + C < N THEN i * (C - O) + C ELSE N)
                 /\ chunks[i + 1].text = join(split(chunks[i + 1].text))
           /\ \A w \in 1..N :
                 \E i \in 1..Len(chunks) :
                     \E k \in 1..Len(split(chunks[i].text)) :
                         split(chunks[i].text)[k] = words[w]
           /\ LET last == split(chunks[Len(chunks)].text) IN last[Len(last)] = words[N]

\* A page with leading, doubled and trailing whitespace has been cut into
\* several chunks, the last one a partial chunk that ends with the page's
\* last word.
C29_Witness ==
    /\ chunked
    /\ text # <<>>
    /\ text[1] = Space
    /\ Len(chunks) >= 2
    /\ Len(split(chunks[Len(chunks)].text)) < word_chunk_size(config)
    /\ LET last == split(chunks[Len(chunks)].text) IN
          last[Len(last)] = split(text)[Len(split(text))]

(***************************************************************************)
(* C30.  The in-memory audit store and the per-day log file stay           *)
(* consistent across any sequence of log_access calls: an entry is         *)
(* appended to the store if and only if its JSON line is appended to the   *)
(* file, so a call that fails while writing the file (and raises instead   *)
(* of returning success) leaves the store unchanged.  Outside a call, the  *)
(* i-th line of the file is the JSON text of the i-th entry of the store.  *)
(* Fails: log_access appends the entry to the store (tools.py line 157)    *)
(* before it opens the file (lines 160-162) and does not take the entry    *)
(* back when the write raises: the store keeps an entry that has no line.  *)
(***************************************************************************)
C30_StoreMatchesLogFile ==
    (\A r \in Runs : pc[r] # "log_write") =>
        /\ Len(audit_log_store) = Len(log_file)
        /\ \A i \in 1..Len(log_file) :
              log_file[i] = <<json_dumps(audit_log_store[i]), "\n">>

====
